---- MODULE Spec2Model ----
(***************************************************************************)
(* LRUKReplacer of src/buffer/lru_k_replacer.cpp as a state machine.       *)
(*                                                                         *)
(* One action per public method.  Under Spec, SpecDeep, SpecAccess and     *)
(* SpecCache there is a single caller and a call is one step; under        *)
(* SpecThreads several threads call the replacer, which takes no lock.     *)
(*                                                                         *)
(* The two priority queues                                                 *)
(* hold COPIES of nodes, exactly as std::priority_queue<LRUKNode> does, so *)
(* a copy can differ from the record of the same frame in node_store_.     *)
(* A queue is a bag of node copies; top() is the element the comparator    *)
(* ranks highest.                                                          *)
(*                                                                         *)
(* buffer/lru_k_replacer.h and common/macros.h are not part of the         *)
(* sources at hand: the two comparators, the capacity of the cache of      *)
(* deleted pages, the default LRUKNode and BUSTUB_ASSERT are modelled from *)
(* the specification text (spec.md 3, 4.1, 7).                             *)
(*                                                                         *)
(* SpecPool is about the containers of BufferPoolManager and the wrappers  *)
(* of include/buffer/buffer_pool_manager.h that guard them with            *)
(* bpm_latch_; the replacer takes no part in it.                           *)
(***************************************************************************)
EXTENDS Integers, Sequences, FiniteSets, Bags, TLC

\* ------------------------------------------------------------------ bounds
NumFrames == 2          \* num_frames handed to the constructor
MaxK == 3               \* k handed to the constructor ranges over 1..MaxK
MaxCache == 1           \* capacity of the cache of deleted pages: 1..MaxCache
MaxTimestamp == 5       \* Spec: calls are made while current_timestamp_ < MaxTimestamp
MaxDeepTimestamp == 8   \* SpecDeep: the same, for the longer runs
MaxCacheTimestamp == 6  \* SpecCache: the same
MaxThreadTimestamp == 4 \* SpecThreads: the same
NumThreads == 2         \* threads calling concurrently
NumPages == 2           \* page ids the pool's callers ask for
MaxPoolCalls == 4       \* SpecPool: calls the pool's callers begin

VARIABLES
    node_store_,              \* frame id -> LRUKNode
    less_k_history_,          \* priority_queue of node copies, CompareLessKNode
    k_history_,               \* priority_queue of node copies, CompareKNode
    curr_size_,               \* size_t; an integer n < 0 stands for 2^64 + n
    current_timestamp_,
    cache_deleted_pages,      \* ordered map timestamp -> LRUKNode, as a sequence
    k_,
    size_cache_deleted_pages_,
    fault,                    \* "none", or why the process has stopped
    ub,                       \* an operation with undefined behaviour was executed
    last,                     \* the last call: method and result
    forgotten,                \* history: frames removed and not re-entered since
    pc,                       \* thread -> where it stands ("idle": in no call)
    local,                    \* thread -> the locals of the call it is in
    page_table_,              \* BufferPoolManager: page id -> frame id
    frame_table_,             \* BufferPoolManager: frame id -> page id
    free_frames_,             \* BufferPoolManager: list of free frame ids
    bpm_latch_,               \* std::mutex: 0 when free, else the owning thread
    pool_calls                \* history: calls of the pool begun so far

vars == <<node_store_, less_k_history_, k_history_, curr_size_,
          current_timestamp_, cache_deleted_pages, k_,
          size_cache_deleted_pages_, fault, ub, last, forgotten, pc, local,
          page_table_, frame_table_, free_frames_, bpm_latch_, pool_calls>>

\* The containers of the buffer pool manager and their latch.
pool == <<page_table_, frame_table_, free_frames_, bpm_latch_>>

Threads == 1 .. NumThreads

\* The locals of a thread that is in no call.
NoLocal == [frame_id |-> 0 - 1]

\* The replacer's own data (everything but the model's bookkeeping).
replacer == <<node_store_, less_k_history_, k_history_, curr_size_,
              current_timestamp_, cache_deleted_pages>>

replacer_size_ == NumFrames

Frames == 0 .. (replacer_size_ - 1)

\* frame_id_t arguments a caller may pass: valid ones, -1, the pool size
\* itself and one above it.
FrameIds == (0 - 1) .. (replacer_size_ + 1)

\* (what InRange would be had the bound been left out of the assertion)
InRangeNoUpperBound(frame_id) == frame_id >= 0

\* static_cast<size_t>(frame_id) < replacer_size_: a negative frame_id_t
\* converts to a value of at least 2^63.
InRange(frame_id) == frame_id >= 0 /\ frame_id < replacer_size_

\* ------------------------------------------------------------------ nodes
\* An LRUKNode: fid_, history_ (oldest access first) and is_evictable_.
\* The member k_ is written at line 58 and never read; it is left out.

\* A default-constructed LRUKNode ("LRUKNode node;", and node_store_[frame]
\* on an absent key): no access, not evictable; fid_ has no value of its
\* own, v is whatever the member holds.
DefaultNode(v) ==
    [fid_ |-> v, history_ |-> <<>>, is_evictable_ |-> FALSE]

\* "LRUKNode node;" followed by the assignments of lines 58-59.
NewNode(frame_id) == [DefaultNode(frame_id) EXCEPT !.fid_ = frame_id]

\* Values an indeterminate frame_id_t can take, up to what the code can
\* tell apart: each valid frame id, and -1 for everything else.
Indeterminate == (0 - 1) .. (replacer_size_ - 1)

\* ------------------------------------------------------- priority queues
\* Comparators in the C++ sense: Compare(a, b) means a is ordered before b,
\* and top() is an element no other element is ordered after.
CompareLessKNode(a, b) ==
    a.history_[Len(a.history_)] > b.history_[Len(b.history_)]

CompareKNode(a, b) == a.history_[1] > b.history_[1]

LessKTop(q) ==
    CHOOSE n \in BagToSet(q) :
        \A m \in BagToSet(q) : ~CompareLessKNode(n, m)

KTop(q) ==
    CHOOSE n \in BagToSet(q) : \A m \in BagToSet(q) : ~CompareKNode(n, m)

Push(q, n) == q (+) SetToBag({n})

Pop(q, n) == q (-) SetToBag({n})

Empty(q) == BagToSet(q) = {}

Fids(q) == {n.fid_ : n \in BagToSet(q)}

Copies(q, frame_id) == [n \in {m \in BagToSet(q) : m.fid_ = frame_id} |-> q[n]]


\* One scan "while (q.top().fid_ != frame_id) { tmp.push(q.top()); q.pop(); }
\* q.pop(); push tmp back": the highest-ranked copy of frame_id leaves q.
\* When q holds no copy of frame_id the loop empties q and then calls top()
\* and pop() on the empty queue, which is undefined.  The outcomes kept:
\* the process dies (crash), or the read of the vacated slot yields
\* frame_id, pop() of the empty vector leaves it empty and the saved
\* elements are pushed back, so q ends as it began.
ScanLessK(q, frame_id) ==
    IF frame_id \in Fids(q)
    THEN {[q |-> Pop(q, LessKTop(Copies(q, frame_id))),
           crash |-> FALSE, empty |-> FALSE]}
    ELSE {[q |-> q, crash |-> c, empty |-> TRUE] : c \in BOOLEAN}

ScanK(q, frame_id) ==
    IF frame_id \in Fids(q)
    THEN {[q |-> Pop(q, KTop(Copies(q, frame_id))),
           crash |-> FALSE, empty |-> FALSE]}
    ELSE {[q |-> q, crash |-> c, empty |-> TRUE] : c \in BOOLEAN}

\* ------------------------------------------------------------------ cache
\* (what CacheInsert would be had the erase taken the newest entry, end() - 1,
\* instead of begin())
CacheInsertDropNewest(node) ==
    LET c == Append(cache_deleted_pages,
                    [ts |-> current_timestamp_, node |-> node])
    IN  IF Len(c) > size_cache_deleted_pages_ THEN cache_deleted_pages ELSE c

\* cache_deleted_pages.insert({current_timestamp_++, node}) and the erase of
\* begin() when the size exceeds the capacity.
CacheInsert(node) ==
    LET c == Append(cache_deleted_pages,
                    [ts |-> current_timestamp_, node |-> node])
    IN  IF Len(c) > size_cache_deleted_pages_ THEN Tail(c) ELSE c

\* The first cache entry, in key order, whose node has fid_ = frame_id
\* (0: none).
CacheIndex(frame_id) ==
    LET hits == {i \in 1 .. Len(cache_deleted_pages) :
                    cache_deleted_pages[i].node.fid_ = frame_id}
    IN  IF hits = {} THEN 0 ELSE CHOOSE i \in hits : \A j \in hits : i <= j

CacheErase(i) ==
    [j \in 1 .. (Len(cache_deleted_pages) - 1) |->
        IF j < i THEN cache_deleted_pages[j] ELSE cache_deleted_pages[j + 1]]

StoreErase(frame) ==
    [f \in DOMAIN node_store_ \ {frame} |-> node_store_[f]]

StorePut(frame_id, node) ==
    [f \in DOMAIN node_store_ \cup {frame_id} |->
        IF f = frame_id THEN node ELSE node_store_[f]]

\* ------------------------------------------------------ history variable
\* forgotten[f]: "removed" after Remove(f) took f's node, "accessed" once
\* RecordAccess(f) has followed, "no" once SetEvictable(f, true) has
\* followed that (and at the start).
Forget(frame_id) ==
    IF frame_id \in DOMAIN forgotten
    THEN [forgotten EXCEPT ![frame_id] = "removed"]
    ELSE forgotten

Reaccess(frame_id) ==
    IF frame_id \in DOMAIN forgotten /\ forgotten[frame_id] = "removed"
    THEN [forgotten EXCEPT ![frame_id] = "accessed"]
    ELSE forgotten

Reenter(frame_id) ==
    IF frame_id \in DOMAIN forgotten /\ forgotten[frame_id] = "accessed"
    THEN [forgotten EXCEPT ![frame_id] = "no"]
    ELSE forgotten

\* ----------------------------------------------------------------- faults
\* ret: what Evict returned ({}: std::nullopt, or nothing returned).
Call(op, ret) == [op |-> op, ret |-> ret]

\* BUSTUB_ASSERT fails: the process aborts where it stands.
AssertFail(why, op) ==
    /\ fault' = why
    /\ last' = Call(op, {})
    /\ UNCHANGED <<k_, size_cache_deleted_pages_, ub, forgotten>>

\* The process dies inside a call on an empty queue; the replacer is kept
\* as the call found it, and nothing runs after.
Crash(op) ==
    /\ fault' = "crash"
    /\ ub' = TRUE
    /\ last' = Call(op, {})
    /\ UNCHANGED <<replacer, k_, size_cache_deleted_pages_, forgotten>>

\* The buffer pool manager after construction: no page resident, every
\* frame on the free list, the latch free.
PoolInit ==
    /\ page_table_ = << >>
    /\ frame_table_ = << >>
    /\ free_frames_ = [i \in 1 .. replacer_size_ |-> i - 1]
    /\ bpm_latch_ = 0
    /\ pool_calls = 0

\* The constructor, for every k and cache capacity within the bounds; the
\* containers start empty, the counter and the clock at 0.
Init ==
    /\ node_store_ = << >>
    /\ less_k_history_ = EmptyBag
    /\ k_history_ = EmptyBag
    /\ curr_size_ = 0
    /\ current_timestamp_ = 0
    /\ cache_deleted_pages = << >>
    /\ k_ \in 1 .. MaxK
    /\ size_cache_deleted_pages_ \in 1 .. MaxCache
    /\ fault = "none"
    /\ ub = FALSE
    /\ last = Call("Init", {})
    /\ forgotten = [f \in Frames |-> "no"]
    /\ pc = [t \in Threads |-> "idle"]
    /\ local = [t \in Threads |-> NoLocal]
    /\ PoolInit

\* No call is made once the process has stopped.
Running == fault = "none"

\* ------------------------------------------------------------------ Evict
\* Lines 32-39, for the frame taken from a queue.
EvictFrame(frame, less, kq, empty) ==
    /\ \E v \in Indeterminate :
          LET node == IF frame \in DOMAIN node_store_
                      THEN node_store_[frame] ELSE DefaultNode(v)
          IN  cache_deleted_pages' = CacheInsert(node)
    /\ curr_size_' = curr_size_ - 1
    /\ current_timestamp_' = current_timestamp_ + 1
    /\ node_store_' = StoreErase(frame)
    /\ less_k_history_' = less
    /\ k_history_' = kq
    /\ ub' = (ub \/ empty)
    /\ last' = Call("Evict", {frame})
    /\ UNCHANGED <<k_, size_cache_deleted_pages_, fault, forgotten>>

Evict ==
    /\ Running
    /\ IF curr_size_ = 0
       THEN /\ last' = Call("Evict", {})
            /\ UNCHANGED <<replacer, k_, size_cache_deleted_pages_, fault,
                           ub, forgotten>>
       ELSE IF ~Empty(less_k_history_)
       THEN EvictFrame(LessKTop(less_k_history_).fid_,
                       Pop(less_k_history_, LessKTop(less_k_history_)),
                       k_history_, FALSE)
       ELSE IF ~Empty(k_history_)
       THEN EvictFrame(KTop(k_history_).fid_, less_k_history_,
                       Pop(k_history_, KTop(k_history_)), FALSE)
       \* k_history_.top() and pop() on an empty queue: undefined.  The
       \* process dies, or the read yields whatever the slot holds and
       \* pop() leaves the queue empty.
       ELSE \/ Crash("Evict")
            \/ \E v \in Indeterminate :
                  EvictFrame(v, less_k_history_, k_history_, TRUE)


\* ----------------------------------------------------------- RecordAccess
\* (what FetchNode would be had line 51 been left out)
FetchNodeKeepFlag(frame_id) ==
    IF frame_id \in DOMAIN node_store_ THEN node_store_[frame_id]
    ELSE IF CacheIndex(frame_id) # 0
    THEN [cache_deleted_pages[CacheIndex(frame_id)].node EXCEPT
             !.history_ = << >>]
    ELSE NewNode(frame_id)

\* Lines 44-63: the node RecordAccess works on.  A frame without a node
\* takes the node of its cache entry, its history cleared and its flag
\* reset, or else a new node.
FetchNode(frame_id) ==
    IF frame_id \in DOMAIN node_store_ THEN node_store_[frame_id]
    ELSE IF CacheIndex(frame_id) # 0
    THEN [cache_deleted_pages[CacheIndex(frame_id)].node EXCEPT
             !.history_ = << >>, !.is_evictable_ = FALSE]
    ELSE NewNode(frame_id)

\* Line 52: the cache entry found for an untracked frame is erased.
FetchCache(frame_id) ==
    IF frame_id \notin DOMAIN node_store_ /\ CacheIndex(frame_id) # 0
    THEN CacheErase(CacheIndex(frame_id))
    ELSE cache_deleted_pages

\* (what Touch would be had the pop_front() of line 67 been left out)
TouchNoTrim(node) ==
    [node EXCEPT !.history_ = Append(node.history_, current_timestamp_)]

\* Lines 65-67: push_back(current_timestamp_++), pop_front() above k_.
Touch(node) ==
    LET h == Append(node.history_, current_timestamp_)
    IN  [node EXCEPT !.history_ = IF Len(h) > k_ THEN Tail(h) ELSE h]

\* Line 66, evaluated on the history before the trim.
Overfull(node) == Len(node.history_) + 1 > k_

\* Lines 68-80: an evictable node that was already full is taken out of
\* k_history_ and pushed again with its new history.
Requeue(node, frame_id) ==
    IF Overfull(node) /\ node.is_evictable_
    THEN {[q |-> IF o.crash THEN o.q ELSE Push(o.q, Touch(node)),
           crash |-> o.crash, empty |-> o.empty] :
             o \in ScanK(k_history_, frame_id)}
    ELSE {[q |-> k_history_, crash |-> FALSE, empty |-> FALSE]}

\* Line 82.
Promoted(node) ==
    Len(Touch(node).history_) = k_ /\ node.is_evictable_

\* Lines 82-100: an evictable node with k_ accesses is pushed on k_history_
\* and searched for in less_k_history_.
Promote(node, frame_id, kq) ==
    IF Promoted(node)
    THEN {[kq |-> Push(kq, Touch(node)), less |-> o.q,
           crash |-> o.crash, empty |-> o.empty] :
             o \in ScanLessK(less_k_history_, frame_id)}
    ELSE {[kq |-> kq, less |-> less_k_history_,
           crash |-> FALSE, empty |-> FALSE]}

RecordAccess(frame_id) ==
    /\ Running
    /\ IF ~InRange(frame_id)
       THEN /\ AssertFail("out_of_range", "RecordAccess")
            /\ UNCHANGED replacer
       ELSE LET node == FetchNode(frame_id) IN
            \E r \in Requeue(node, frame_id) :
            \E p \in Promote(node, frame_id, r.q) :
               IF r.crash \/ p.crash
               THEN /\ Crash("RecordAccess")
                    /\ UNCHANGED replacer
               ELSE /\ node_store_' = StorePut(frame_id, Touch(node))
                    /\ cache_deleted_pages' = FetchCache(frame_id)
                    /\ current_timestamp_' = current_timestamp_ + 1
                    /\ k_history_' = p.kq
                    /\ less_k_history_' = p.less
                    /\ ub' = (ub \/ r.empty \/ p.empty)
                    /\ forgotten' = Reaccess(frame_id)
                    /\ last' = Call("RecordAccess", {})
                    /\ UNCHANGED <<curr_size_, k_, size_cache_deleted_pages_,
                                   fault>>

\* ----------------------------------------------------------- SetEvictable
\* Lines 110-117.
MakeEvictable(frame_id, node) ==
    /\ curr_size_' = curr_size_ + 1
    /\ node_store_' = StorePut(frame_id, [node EXCEPT !.is_evictable_ = TRUE])
    /\ IF Len(node.history_) < k_
       THEN /\ less_k_history_' =
                  Push(less_k_history_, [node EXCEPT !.is_evictable_ = TRUE])
            /\ k_history_' = k_history_
       ELSE /\ k_history_' =
                  Push(k_history_, [node EXCEPT !.is_evictable_ = TRUE])
            /\ less_k_history_' = less_k_history_
    /\ ub' = ub
    /\ fault' = fault

\* Lines 118-149: k_history_ is searched to its end; only when it holds no
\* copy of the frame is less_k_history_ searched, with no test for empty.
MakePinned(frame_id, node) ==
    IF frame_id \in Fids(k_history_)
    THEN /\ k_history_' = Pop(k_history_, KTop(Copies(k_history_, frame_id)))
         /\ less_k_history_' = less_k_history_
         /\ curr_size_' = curr_size_ - 1
         /\ node_store_' =
               StorePut(frame_id, [node EXCEPT !.is_evictable_ = FALSE])
         /\ ub' = ub
         /\ fault' = fault
    ELSE \E o \in ScanLessK(less_k_history_, frame_id) :
            IF o.crash
            THEN /\ fault' = "crash"
                 /\ ub' = TRUE
                 /\ UNCHANGED <<node_store_, less_k_history_, k_history_,
                                curr_size_>>
            ELSE /\ less_k_history_' = o.q
                 /\ k_history_' = k_history_
                 /\ curr_size_' = curr_size_ - 1
                 /\ node_store_' =
                       StorePut(frame_id, [node EXCEPT !.is_evictable_ = FALSE])
                 /\ ub' = (ub \/ o.empty)
                 /\ fault' = fault

\* (what ReturnUntracked would be had the return of line 107 come after
\* line 151)
ReturnUntrackedLate ==
    /\ current_timestamp_' = current_timestamp_ + 1
    /\ UNCHANGED <<node_store_, less_k_history_, k_history_, curr_size_,
                   ub, fault, forgotten>>

\* Lines 106-108: the frame has no node.
ReturnUntracked ==
    UNCHANGED <<node_store_, less_k_history_, k_history_, curr_size_,
                current_timestamp_, ub, fault, forgotten>>

SetEvictable(frame_id, set_evictable) ==
    /\ Running
    /\ IF ~InRange(frame_id)
       THEN /\ AssertFail("out_of_range", "SetEvictable")
            /\ UNCHANGED replacer
       ELSE /\ last' = Call("SetEvictable", {})
            /\ UNCHANGED <<k_, size_cache_deleted_pages_,
                           cache_deleted_pages>>
            /\ IF frame_id \notin DOMAIN node_store_
               THEN ReturnUntracked
               ELSE LET node == node_store_[frame_id] IN
                    /\ IF set_evictable /\ ~node.is_evictable_
                       THEN MakeEvictable(frame_id, node)
                       ELSE IF ~set_evictable /\ node.is_evictable_
                       THEN MakePinned(frame_id, node)
                       ELSE UNCHANGED <<node_store_, less_k_history_,
                                        k_history_, curr_size_, ub, fault>>
                    \* Line 151, unless the process died in the search.
                    /\ current_timestamp_' =
                          IF fault' = "none" THEN current_timestamp_ + 1
                          ELSE current_timestamp_
                    /\ forgotten' =
                          IF set_evictable /\ fault' = "none"
                          THEN Reenter(frame_id) ELSE forgotten

\* ----------------------------------------------------------------- Remove
\* (what Removable would be had the assertion of line 158 been left out)
RemovableAlways(frame_id) == TRUE

\* Line 158: the condition asserted of a tracked frame.
Removable(frame_id) == node_store_[frame_id].is_evictable_

Remove(frame_id) ==
    /\ Running
    /\ IF ~InRange(frame_id)
       THEN /\ AssertFail("out_of_range", "Remove")
            /\ UNCHANGED replacer
       ELSE IF frame_id \notin DOMAIN node_store_
       THEN /\ last' = Call("Remove", {})
            /\ UNCHANGED <<replacer, k_, size_cache_deleted_pages_, fault,
                           ub, forgotten>>
       ELSE IF ~Removable(frame_id)
       THEN /\ AssertFail("not_evictable", "Remove")
            /\ UNCHANGED replacer
       ELSE /\ cache_deleted_pages' = CacheInsert(node_store_[frame_id])
            /\ current_timestamp_' = current_timestamp_ + 1
            /\ curr_size_' = curr_size_ - 1
            /\ node_store_' = StoreErase(frame_id)
            /\ forgotten' = Forget(frame_id)
            /\ last' = Call("Remove", {})
            /\ UNCHANGED <<less_k_history_, k_history_, k_,
                           size_cache_deleted_pages_, fault, ub>>

\* ------------------------------------------------------------------- Size
Size == curr_size_

\* The caller: any call, with any argument, while the clock is below the
\* bound of the run.
Within(limit) == current_timestamp_ < limit

\* The call is made by a single caller: no thread is in a call.
Alone == UNCHANGED <<pc, local, pool, pool_calls>>

Next ==
    \/ \E f \in FrameIds : Within(MaxTimestamp) /\ RecordAccess(f) /\ Alone
    \/ \E f \in FrameIds, b \in BOOLEAN :
          Within(MaxTimestamp) /\ SetEvictable(f, b) /\ Alone
    \/ Within(MaxTimestamp) /\ Evict /\ Alone
    \/ \E f \in FrameIds : Within(MaxTimestamp) /\ Remove(f) /\ Alone

Spec == Init /\ [][Next]_vars

NextDeep ==
    \/ \E f \in FrameIds : Within(MaxDeepTimestamp) /\ RecordAccess(f) /\ Alone
    \/ \E f \in FrameIds, b \in BOOLEAN :
          Within(MaxDeepTimestamp) /\ SetEvictable(f, b) /\ Alone
    \/ Within(MaxDeepTimestamp) /\ Evict /\ Alone
    \/ \E f \in FrameIds : Within(MaxDeepTimestamp) /\ Remove(f) /\ Alone

SpecDeep == Init /\ [][NextDeep]_vars

\* Frames in range are accessed, made evictable, evicted and removed: the
\* calls that fill the cache of deleted pages.
NextCache ==
    \/ \E f \in Frames : Within(MaxCacheTimestamp) /\ RecordAccess(f) /\ Alone
    \/ \E f \in Frames : Within(MaxCacheTimestamp) /\ SetEvictable(f, TRUE) /\ Alone
    \/ Within(MaxCacheTimestamp) /\ Evict /\ Alone
    \/ \E f \in Frames : Within(MaxCacheTimestamp) /\ Remove(f) /\ Alone

SpecCache == Init /\ [][NextCache]_vars

\* RecordAccess and SetEvictable calls, then one Evict, then nothing.
NextAccess ==
    \/ \E f \in FrameIds :
          Within(MaxDeepTimestamp) /\ last.op # "Evict" /\ RecordAccess(f) /\ Alone
    \/ \E f \in FrameIds, b \in BOOLEAN :
          Within(MaxDeepTimestamp) /\ last.op # "Evict" /\ SetEvictable(f, b) /\ Alone
    \/ Within(MaxDeepTimestamp) /\ last.op # "Evict" /\ Evict /\ Alone

SpecAccess == Init /\ [][NextAccess]_vars

\* ---------------------------------------------------------------- threads
\* The methods take no lock (lru_k_replacer.cpp holds no lock statement), so
\* a thread can be between two statements of a call while another thread
\* runs.  A call either runs without interruption (the actions above) or,
\* for SetEvictable(frame_id, true), stops between line 117 and line 150;
\* the code can be interrupted at every other statement as well, which only
\* adds behaviours to the ones below.

\* Lines 105-117 of SetEvictable(frame_id, true) on a tracked frame that is
\* not evictable: the counter and the queue are written, the node is still
\* the local copy of line 109.
SetEvictableEnter(t, frame_id) ==
    /\ Running
    /\ pc[t] = "idle"
    /\ InRange(frame_id)
    /\ frame_id \in DOMAIN node_store_
    /\ ~node_store_[frame_id].is_evictable_
    /\ LET node == [node_store_[frame_id] EXCEPT !.is_evictable_ = TRUE] IN
       /\ curr_size_' = curr_size_ + 1
       /\ IF Len(node.history_) < k_
          THEN /\ less_k_history_' = Push(less_k_history_, node)
               /\ k_history_' = k_history_
          ELSE /\ k_history_' = Push(k_history_, node)
               /\ less_k_history_' = less_k_history_
       /\ local' = [local EXCEPT ![t] = [frame_id |-> frame_id, node |-> node]]
    /\ pc' = [pc EXCEPT ![t] = "SetEvictable_150"]
    /\ UNCHANGED <<node_store_, current_timestamp_, cache_deleted_pages, k_,
                   size_cache_deleted_pages_, fault, ub, last, forgotten, pool,
                   pool_calls>>

\* Lines 150-151 of the same call.
SetEvictableStore(t) ==
    /\ Running
    /\ pc[t] = "SetEvictable_150"
    /\ node_store_' = StorePut(local[t].frame_id, local[t].node)
    /\ current_timestamp_' = current_timestamp_ + 1
    /\ forgotten' = Reenter(local[t].frame_id)
    /\ last' = Call("SetEvictable", {})
    /\ pc' = [pc EXCEPT ![t] = "idle"]
    /\ local' = [local EXCEPT ![t] = NoLocal]
    /\ UNCHANGED <<less_k_history_, k_history_, curr_size_,
                   cache_deleted_pages, k_, size_cache_deleted_pages_,
                   fault, ub, pool, pool_calls>>

\* Line 168, called by thread t; ret is the value returned.
SizeCall(t) ==
    /\ Running
    /\ pc[t] = "idle"
    /\ last' = Call("Size", {Size})
    /\ UNCHANGED <<replacer, k_, size_cache_deleted_pages_, fault, ub,
                   forgotten, pc, local, pool, pool_calls>>

\* Thread t makes a whole call.
Idle(t) == pc[t] = "idle" /\ UNCHANGED <<pc, local, pool, pool_calls>>

NextThreads ==
    \/ \E t \in Threads, f \in Frames :
          Within(MaxThreadTimestamp) /\ RecordAccess(f) /\ Idle(t)
    \/ \E t \in Threads, f \in Frames, b \in BOOLEAN :
          Within(MaxThreadTimestamp) /\ SetEvictable(f, b) /\ Idle(t)
    \/ \E t \in Threads : Within(MaxThreadTimestamp) /\ Evict /\ Idle(t)
    \/ \E t \in Threads, f \in Frames :
          Within(MaxThreadTimestamp) /\ Remove(f) /\ Idle(t)
    \/ \E t \in Threads : Within(MaxThreadTimestamp) /\ SizeCall(t)
    \/ \E t \in Threads, f \in Frames :
          Within(MaxThreadTimestamp) /\ SetEvictableEnter(t, f)
    \/ \E t \in Threads : SetEvictableStore(t)

SpecThreads == Init /\ [][NextThreads]_vars

\* ------------------------------------------------- buffer pool containers
\* ThreadSafeMapWrapper and ThreadSafeListWrapper of buffer_pool_manager.h:
\* every method takes bpm_latch_ for the one container operation it makes
\* and releases it on return.  buffer_pool_manager.cpp is not among the
\* sources; the two callers below (the resolution of a page to a free
\* frame, and the deletion of a page) follow spec.md 4.2 and reach the
\* containers through the wrappers only.
Pages == 0 .. (NumPages - 1)

\* operator[]: map_[key] adds a value-initialised entry (0) for a new key.
MapIndex(map, key) ==
    IF key \in DOMAIN map THEN map
    ELSE [x \in DOMAIN map \cup {key} |-> IF x = key THEN 0 ELSE map[x]]

\* get(): map_.at(key), for a key that is there.
MapGet(map, key) == map[key]

\* find().
MapFind(map, key) == key \in DOMAIN map

\* erase().
MapErase(map, key) == [x \in DOMAIN map \ {key} |-> map[x]]

\* push_back(), empty(), front() and pop_front() of the list wrapper.
ListPushBack(list, value) == Append(list, value)

ListEmpty(list) == Len(list) = 0

ListFront(list) == Head(list)

ListPopFront(list) == Tail(list)

\* The labels at which a thread is about to call a wrapper method.
AtWrapper ==
    {"fetch_find", "fetch_empty", "fetch_front", "fetch_pop",
     "fetch_pt_index", "fetch_ft_index", "delete_find", "delete_get",
     "delete_pt_erase", "delete_ft_erase", "delete_push"}

\* The replacer takes no part in the steps of the pool.
Untouched ==
    UNCHANGED <<replacer, k_, size_cache_deleted_pages_, last, forgotten,
                pool_calls>>

\* A caller begins a call, while the bound of the run allows one.
Begun ==
    /\ pool_calls < MaxPoolCalls
    /\ pool_calls' = pool_calls + 1
    /\ UNCHANGED <<replacer, k_, size_cache_deleted_pages_, last, forgotten>>

\* std::scoped_lock latch(*latch_): the first statement of every method.
Lock(t) ==
    /\ Running
    /\ pc[t] \in AtWrapper
    /\ bpm_latch_ = 0
    /\ bpm_latch_' = t
    /\ UNCHANGED <<page_table_, frame_table_, free_frames_, pc, local,
                   fault, ub>>
    /\ Untouched

\* Thread t is inside the wrapper method it called at label.
Inside(t, label) == Running /\ pc[t] = label /\ bpm_latch_ = t

Goto(t, label, loc) ==
    /\ pc' = [pc EXCEPT ![t] = label]
    /\ local' = [local EXCEPT ![t] = loc]

\* The process dies in an operation with undefined behaviour.
PoolCrash ==
    /\ fault' = "crash"
    /\ ub' = TRUE
    /\ UNCHANGED <<pool, pc, local>>

\* A caller asks for page page_id (spec.md 4.2, resolution steps 1, 2, 5).
FetchBegin(t, page_id) ==
    /\ Running
    /\ pc[t] = "idle"
    /\ Goto(t, "fetch_find", [frame_id |-> 0 - 1, page_id |-> page_id])
    /\ UNCHANGED <<pool, fault, ub>>
    /\ Begun

\* safe_page_table_.find(page_id): a resident page needs no frame.
FetchFind(t) ==
    /\ Inside(t, "fetch_find")
    /\ bpm_latch_' = 0
    /\ IF MapFind(page_table_, local[t].page_id)
       THEN Goto(t, "idle", NoLocal)
       ELSE Goto(t, "fetch_empty", local[t])
    /\ UNCHANGED <<page_table_, frame_table_, free_frames_, fault, ub>>
    /\ Untouched

\* safe_free_frames_.empty(): without a free frame the resolution goes to
\* the replacer, which is not followed here.
FetchEmpty(t) ==
    /\ Inside(t, "fetch_empty")
    /\ bpm_latch_' = 0
    /\ IF ListEmpty(free_frames_)
       THEN Goto(t, "idle", NoLocal)
       ELSE Goto(t, "fetch_front", local[t])
    /\ UNCHANGED <<page_table_, frame_table_, free_frames_, fault, ub>>
    /\ Untouched

\* safe_free_frames_.front(); on an empty list the call is undefined: the
\* process dies or the read yields whatever the sentinel node holds.
FetchFront(t) ==
    /\ Inside(t, "fetch_front")
    /\ Untouched
    /\ IF ~ListEmpty(free_frames_)
       THEN /\ bpm_latch_' = 0
            /\ Goto(t, "fetch_pop",
                    [local[t] EXCEPT !.frame_id = ListFront(free_frames_)])
            /\ UNCHANGED <<page_table_, frame_table_, free_frames_,
                           fault, ub>>
       ELSE \/ PoolCrash
            \/ \E v \in Indeterminate :
                  /\ bpm_latch_' = 0
                  /\ Goto(t, "fetch_pop", [local[t] EXCEPT !.frame_id = v])
                  /\ ub' = TRUE
                  /\ UNCHANGED <<page_table_, frame_table_, free_frames_,
                                 fault>>

\* safe_free_frames_.pop_front(); on an empty list the call is undefined:
\* the process dies or the list stays empty.
FetchPop(t) ==
    /\ Inside(t, "fetch_pop")
    /\ Untouched
    /\ IF ~ListEmpty(free_frames_)
       THEN /\ bpm_latch_' = 0
            /\ free_frames_' = ListPopFront(free_frames_)
            /\ Goto(t, "fetch_pt_index", local[t])
            /\ UNCHANGED <<page_table_, frame_table_, fault, ub>>
       ELSE \/ PoolCrash
            \/ /\ bpm_latch_' = 0
               /\ Goto(t, "fetch_pt_index", local[t])
               /\ ub' = TRUE
               /\ UNCHANGED <<page_table_, frame_table_, free_frames_,
                              fault>>

\* safe_page_table_[page_id] = frame_id, first half: operator[] returns the
\* reference to the entry and releases the latch.
FetchPageIndex(t) ==
    /\ Inside(t, "fetch_pt_index")
    /\ bpm_latch_' = 0
    /\ page_table_' = MapIndex(page_table_, local[t].page_id)
    /\ Goto(t, "fetch_pt_assign", local[t])
    /\ UNCHANGED <<frame_table_, free_frames_, fault, ub>>
    /\ Untouched

\* Second half: the assignment through the reference, with no latch held.
\* When the entry has been erased meanwhile the reference dangles: the
\* process dies or the write lands in memory the map no longer uses.
FetchPageAssign(t) ==
    /\ Running
    /\ pc[t] = "fetch_pt_assign"
    /\ Untouched
    /\ IF MapFind(page_table_, local[t].page_id)
       THEN /\ page_table_' =
                  [page_table_ EXCEPT ![local[t].page_id] = local[t].frame_id]
            /\ Goto(t, "fetch_ft_index", local[t])
            /\ UNCHANGED <<frame_table_, free_frames_, bpm_latch_, fault, ub>>
       ELSE \/ PoolCrash
            \/ /\ Goto(t, "fetch_ft_index", local[t])
               /\ ub' = TRUE
               /\ UNCHANGED <<pool, fault>>

\* safe_frame_table_[frame_id] = page_id, in the same two halves.
FetchFrameIndex(t) ==
    /\ Inside(t, "fetch_ft_index")
    /\ bpm_latch_' = 0
    /\ frame_table_' = MapIndex(frame_table_, local[t].frame_id)
    /\ Goto(t, "fetch_ft_assign", local[t])
    /\ UNCHANGED <<page_table_, free_frames_, fault, ub>>
    /\ Untouched

FetchFrameAssign(t) ==
    /\ Running
    /\ pc[t] = "fetch_ft_assign"
    /\ Untouched
    /\ IF MapFind(frame_table_, local[t].frame_id)
       THEN /\ frame_table_' =
                  [frame_table_ EXCEPT ![local[t].frame_id] = local[t].page_id]
            /\ Goto(t, "idle", NoLocal)
            /\ UNCHANGED <<page_table_, free_frames_, bpm_latch_, fault, ub>>
       ELSE \/ PoolCrash
            \/ /\ Goto(t, "idle", NoLocal)
               /\ ub' = TRUE
               /\ UNCHANGED <<pool, fault>>

\* A caller deletes page page_id (spec.md 4.2, delete_page).
DeleteBegin(t, page_id) ==
    /\ Running
    /\ pc[t] = "idle"
    /\ Goto(t, "delete_find", [frame_id |-> 0 - 1, page_id |-> page_id])
    /\ UNCHANGED <<pool, fault, ub>>
    /\ Begun

\* safe_page_table_.find(page_id): nothing to do for a page not resident.
DeleteFind(t) ==
    /\ Inside(t, "delete_find")
    /\ bpm_latch_' = 0
    /\ IF MapFind(page_table_, local[t].page_id)
       THEN Goto(t, "delete_get", local[t])
       ELSE Goto(t, "idle", NoLocal)
    /\ UNCHANGED <<page_table_, frame_table_, free_frames_, fault, ub>>
    /\ Untouched

\* safe_page_table_.get(page_id): map_.at(key) throws std::out_of_range
\* for a key that is not there.
DeleteGet(t) ==
    /\ Inside(t, "delete_get")
    /\ Untouched
    /\ IF MapFind(page_table_, local[t].page_id)
       THEN /\ bpm_latch_' = 0
            /\ Goto(t, "delete_pt_erase",
                    [local[t] EXCEPT
                        !.frame_id = MapGet(page_table_, local[t].page_id)])
            /\ UNCHANGED <<page_table_, frame_table_, free_frames_,
                           fault, ub>>
       ELSE /\ fault' = "exception"
            /\ UNCHANGED <<pool, pc, local, ub>>

\* safe_page_table_.erase(page_id).
DeletePageErase(t) ==
    /\ Inside(t, "delete_pt_erase")
    /\ bpm_latch_' = 0
    /\ page_table_' = MapErase(page_table_, local[t].page_id)
    /\ Goto(t, "delete_ft_erase", local[t])
    /\ UNCHANGED <<frame_table_, free_frames_, fault, ub>>
    /\ Untouched

\* safe_frame_table_.erase(frame_id).
DeleteFrameErase(t) ==
    /\ Inside(t, "delete_ft_erase")
    /\ bpm_latch_' = 0
    /\ frame_table_' = MapErase(frame_table_, local[t].frame_id)
    /\ Goto(t, "delete_push", local[t])
    /\ UNCHANGED <<page_table_, free_frames_, fault, ub>>
    /\ Untouched

\* safe_free_frames_.push_back(frame_id).
DeletePush(t) ==
    /\ Inside(t, "delete_push")
    /\ bpm_latch_' = 0
    /\ free_frames_' = ListPushBack(free_frames_, local[t].frame_id)
    /\ Goto(t, "idle", NoLocal)
    /\ UNCHANGED <<page_table_, frame_table_, fault, ub>>
    /\ Untouched

NextPool ==
    \/ \E t \in Threads : Lock(t)
    \/ \E t \in Threads, p \in Pages : FetchBegin(t, p)
    \/ \E t \in Threads : FetchFind(t)
    \/ \E t \in Threads : FetchEmpty(t)
    \/ \E t \in Threads : FetchFront(t)
    \/ \E t \in Threads : FetchPop(t)
    \/ \E t \in Threads : FetchPageIndex(t)
    \/ \E t \in Threads : FetchPageAssign(t)
    \/ \E t \in Threads : FetchFrameIndex(t)
    \/ \E t \in Threads : FetchFrameAssign(t)
    \/ \E t \in Threads, p \in Pages : DeleteBegin(t, p)
    \/ \E t \in Threads : DeleteFind(t)
    \/ \E t \in Threads : DeleteGet(t)
    \/ \E t \in Threads : DeletePageErase(t)
    \/ \E t \in Threads : DeleteFrameErase(t)
    \/ \E t \in Threads : DeletePush(t)

SpecPool == Init /\ [][NextPool]_vars

\* ================================================================= claims
Tracked(f) == f \in DOMAIN node_store_

EvictableFrames == {f \in DOMAIN node_store_ : node_store_[f].is_evictable_}

\* Evictable frames with fewer than k_ recorded accesses, and with k_.
ColdFrames == {f \in EvictableFrames : Len(node_store_[f].history_) < k_}

FullFrames == {f \in EvictableFrames : Len(node_store_[f].history_) >= k_}

\* The step is a call of Evict that returned (a frame or std::nullopt).
EvictReturned == last'.op = "Evict" /\ fault' = "none"

\* C1: after RecordAccess and SetEvictable calls only, the frame Evict
\* returns is a tracked frame whose evictable flag was true immediately
\* before the call.
C1_EvictReturnsEvictable ==
    [][EvictReturned => \A f \in last'.ret : f \in EvictableFrames]_vars

\* C2: Evict returns std::nullopt exactly when no tracked frame is
\* evictable, and the node of the frame it returns leaves node_store_.
C2_EvictNoneIffNoneEvictable ==
    [][EvictReturned =>
          /\ (last'.ret = {}) <=> (EvictableFrames = {})
          /\ \A f \in last'.ret : f \notin DOMAIN node_store_']_vars

\* C3: Size() is the number of frames of node_store_ whose evictable flag
\* is set (curr_size_ below 0 stands for a wrapped size_t).
C3_SizeCountsEvictable == Size = Cardinality(EvictableFrames)


\* C4: when some evictable frame has fewer than k_ recorded accesses, Evict
\* returns a frame, and not one with k_ recorded accesses.
C4_ColdBeforeFull ==
    [][(EvictReturned /\ ColdFrames # {}) =>
          /\ last'.ret # {}
          /\ \A f \in last'.ret : f \notin FullFrames]_vars

\* The most recent access the record of f in node_store_ holds.
MostRecent(f) == node_store_[f].history_[Len(node_store_[f].history_)]

\* The oldest access the record of f in node_store_ holds: with k_ accesses
\* recorded, the k_-th most recent one.
KthRecent(f) == node_store_[f].history_[1]

\* C5: among several evictable frames with fewer than k_ accesses, Evict
\* returns the one whose most recent access, as its history now records
\* it, is the smallest.
C5_ColdByMostRecent ==
    [][(EvictReturned /\ ColdFrames # {}) =>
          \E f \in ColdFrames :
             /\ last'.ret = {f}
             /\ \A g \in ColdFrames : MostRecent(f) <= MostRecent(g)]_vars

\* C6: when every evictable frame has k_ accesses, Evict returns the frame
\* whose k_-th most recent access is the smallest.
C6_FullByKDistance ==
    [][(EvictReturned /\ FullFrames # {} /\ ColdFrames = {}) =>
          \E f \in FullFrames :
             /\ last'.ret = {f}
             /\ \A g \in FullFrames : KthRecent(f) <= KthRecent(g)]_vars

\* The last k_ elements of a history.
RECURSIVE MostRecentK(_)
MostRecentK(h) == IF Len(h) > k_ THEN MostRecentK(Tail(h)) ELSE h

\* C7: RecordAccess(f) on an untracked frame whose own node is in the cache
\* gives f a node holding the cached accesses followed by the new one
\* (the most recent k_ of them), not evictable, and takes the entry out of
\* the cache.
C7_HistoryRestored ==
    [][\A f \in Frames :
          (/\ RecordAccess(f)
           /\ ~Tracked(f)
           /\ CacheIndex(f) # 0) =>
          LET old == cache_deleted_pages[CacheIndex(f)] IN
          /\ node_store_'[f].history_ =
                MostRecentK(Append(old.node.history_, current_timestamp_))
          /\ ~node_store_'[f].is_evictable_
          /\ \A i \in 1 .. Len(cache_deleted_pages') :
                cache_deleted_pages'[i] # old]_vars

\* C8: a frame that Remove has forgotten is not returned by Evict before it
\* has been accessed again and made evictable again.
C8_RemovedNotEvicted ==
    [][EvictReturned =>
          \A f \in last'.ret \cap Frames : forgotten[f] = "no"]_vars

\* C9: Remove of a tracked frame that is not evictable fails and leaves
\* the replacer as it was; Remove of an untracked frame in range does
\* nothing at all.
C9_RemoveFailsOrNoop ==
    [][\A f \in Frames :
          (last'.op = "Remove" /\ Remove(f)) =>
             /\ (Tracked(f) /\ ~node_store_[f].is_evictable_) =>
                   (fault' = "not_evictable" /\ UNCHANGED replacer)
             /\ ~Tracked(f) => (fault' = "none" /\ UNCHANGED replacer)]_vars

C9_Witness ==
    /\ fault = "not_evictable"
    /\ last.op = "Remove"
    /\ \E f \in DOMAIN node_store_ : ~node_store_[f].is_evictable_

\* The step is a call of RecordAccess, SetEvictable or Remove with frame
\* id f.
CalledWith(f) ==
    \/ last'.op = "RecordAccess" /\ RecordAccess(f)
    \/ last'.op = "Remove" /\ Remove(f)
    \/ last'.op = "SetEvictable" /\ \E b \in BOOLEAN : SetEvictable(f, b)

\* C10: a frame id above the pool size makes RecordAccess, SetEvictable
\* and Remove fail with out-of-range before anything changes; a frame id
\* in 0 .. pool size - 1 never does.
C10_OutOfRange ==
    [][/\ \A f \in {g \in FrameIds : g > replacer_size_} :
             CalledWith(f) =>
                (fault' = "out_of_range" /\ UNCHANGED replacer)
       /\ fault' = "out_of_range" =>
             \A f \in Frames : ~CalledWith(f)]_vars

C10_Witness ==
    /\ fault = "out_of_range"
    /\ node_store_ # << >>
    /\ current_timestamp_ > 0

\* The entries of a cache, and the one with the smallest timestamp.
Entries(c) == {c[i] : i \in 1 .. Len(c)}

Oldest(c) == CHOOSE e \in Entries(c) : \A d \in Entries(c) : e.ts <= d.ts

\* The step is an Evict that returned a frame, or a Remove that forgot one:
\* the calls that put a node into the cache (each advances the clock).
CacheFed ==
    /\ last'.op \in {"Evict", "Remove"}
    /\ current_timestamp_' = current_timestamp_ + 1

C12_CallsExclusive ==
    [][\A t \in Threads :
          (pc[t] # "idle" /\ pc'[t] = pc[t]) =>
             (last' = last /\ UNCHANGED replacer)]_vars

\* C13: whenever the latch is free, so that another thread can read the
\* tables, page p maps to frame f in page_table_ exactly when frame f maps
\* to page p in frame_table_.
C13_TablesConsistent ==
    bpm_latch_ = 0 =>
       /\ \A p \in DOMAIN page_table_ :
             /\ page_table_[p] \in DOMAIN frame_table_
             /\ frame_table_[page_table_[p]] = p
       /\ \A f \in DOMAIN frame_table_ :
             /\ frame_table_[f] \in DOMAIN page_table_
             /\ page_table_[frame_table_[f]] = f

\* Thread t has taken a frame id from the free list with front().
Taken(t) ==
    pc[t] \in {"fetch_pop", "fetch_pt_index", "fetch_pt_assign",
               "fetch_ft_index", "fetch_ft_assign"}

\* C14: two threads that take a frame from the free list never hold the
\* same frame id, and no thread is inside front() or pop_front() with the
\* list empty.
C14_FreeFrameChoice ==
    /\ \A t, u \in Threads :
          (t # u /\ Taken(t) /\ Taken(u)) =>
             local[t].frame_id # local[u].frame_id
    /\ \A t \in Threads :
          (bpm_latch_ = t /\ pc[t] \in {"fetch_front", "fetch_pop"}) =>
             ~ListEmpty(free_frames_)

\* Timestamps in strictly increasing order.
Increasing(h) == \A i \in 1 .. (Len(h) - 1) : h[i] < h[i + 1]

\* C15: the history of every tracked frame holds between 1 and k_
\* timestamps, strictly increasing and all in the past; RecordAccess on a
\* tracked frame appends the clock value of the call and keeps the k_ most
\* recent entries, and on any frame leaves that clock value as the last
\* entry.
C15_HistoryBounded ==
    [][/\ \A f \in DOMAIN node_store_' :
             LET h == node_store_'[f].history_
             IN  /\ Len(h) >= 1
                 /\ Len(h) <= k_
                 /\ Increasing(h)
                 /\ h[Len(h)] < current_timestamp_'
       /\ \A f \in Frames :
             (last'.op = "RecordAccess" /\ fault' = "none"
                 /\ RecordAccess(f)) =>
                LET h == node_store_'[f].history_
                IN  /\ h[Len(h)] = current_timestamp_
                    /\ Tracked(f) =>
                          h = MostRecentK(Append(node_store_[f].history_,
                                                 current_timestamp_))]_vars

\* One frame alone has been accessed k_ + 1 times (k_ = 2): its first
\* access, at time 0, is no longer in its history.
C15_Witness ==
    /\ k_ = 2
    /\ last.op = "RecordAccess"
    /\ current_timestamp_ = 3
    /\ cache_deleted_pages = << >>
    /\ \E f \in Frames :
          /\ DOMAIN node_store_ = {f}
          /\ node_store_[f].history_ = <<1, 2>>

\* The number of copies of frame f a queue holds.
InQueue(q, f) == BagCardinality(Copies(q, f))

\* C16: every tracked evictable frame has exactly one copy in exactly one
\* queue (less_k_history_ below k_ accesses, k_history_ with k_), no other
\* frame has a copy in either queue, and the two queues together hold
\* Size() entries.
C16_QueueMembership ==
    /\ \A f \in Frames \cup Fids(less_k_history_) \cup Fids(k_history_) :
          IF f \in ColdFrames
          THEN InQueue(less_k_history_, f) = 1 /\ InQueue(k_history_, f) = 0
          ELSE IF f \in FullFrames
          THEN InQueue(less_k_history_, f) = 0 /\ InQueue(k_history_, f) = 1
          ELSE InQueue(less_k_history_, f) = 0 /\ InQueue(k_history_, f) = 0
    /\ BagCardinality(less_k_history_) + BagCardinality(k_history_) = Size

\* C17: no call has executed top() or pop() on an empty priority queue:
\* every search of a queue for frame_id met a copy of it, and Evict with
\* Size() > 0 found a queue that was not empty.
C17_NoEmptyQueueRead == ~ub

\* C18: SetEvictable(f, b) on a frame without a node, for either b,
\* returns and leaves node_store_, both queues, Size(), the clock and the
\* cache as they were.
C18_UntrackedUnchanged ==
    [][\A f \in Frames, b \in BOOLEAN :
          (last'.op = "SetEvictable" /\ ~Tracked(f) /\ SetEvictable(f, b)) =>
             (fault' = "none" /\ UNCHANGED replacer)]_vars

\* SetEvictable has returned while no frame is tracked and one has been
\* evicted or removed.
C18_Witness ==
    /\ last.op = "SetEvictable"
    /\ fault = "none"
    /\ node_store_ = << >>
    /\ cache_deleted_pages # << >>

\* C19: RecordAccess(f) leaves the evictable flag of every frame as it was,
\* gives a frame that had no node a flag that is false, adds no node but
\* that of f, and leaves Size() unchanged.
C19_AccessKeepsCandidacy ==
    [][\A f \in Frames :
          (last'.op = "RecordAccess" /\ fault' = "none" /\ RecordAccess(f)) =>
             /\ Size' = Size
             /\ DOMAIN node_store_' = DOMAIN node_store_ \cup {f}
             /\ \A g \in DOMAIN node_store_' :
                   node_store_'[g].is_evictable_ =
                      IF Tracked(g) THEN node_store_[g].is_evictable_
                      ELSE FALSE]_vars

\* A frame was removed and then accessed: its node came back from the
\* cache (the entry is gone) and is not evictable.
C19_Witness ==
    /\ last.op = "RecordAccess"
    /\ cache_deleted_pages = << >>
    /\ \E f \in DOMAIN node_store_ :
          /\ forgotten[f] = "accessed"
          /\ ~node_store_[f].is_evictable_

\* C20: every copy of a tracked frame's node held in less_k_history_ or
\* k_history_ has the access history the frame's record in node_store_
\* has.
C20_CopiesCurrent ==
    \A n \in BagToSet(less_k_history_) \cup BagToSet(k_history_) :
       n.fid_ \in DOMAIN node_store_ =>
          n.history_ = node_store_[n.fid_].history_

====
